---- MODULE Spec2Model ----
(***************************************************************************)
(* Model of ServicesSettingsPage (src/settings/services/                   *)
(* servicessettingspage.cpp): the rows of the services list, the sorted    *)
(* and filtered proxy the list view shows, and the four configuration      *)
(* stores applySettings() writes.                                          *)
(*                                                                         *)
(* A QString is a sequence of UTF-16 code units (natural numbers), so that *)
(* startsWith(), the code-unit order of std::sort and the locale-aware     *)
(* order of the proxy model are computed, not assumed.                     *)
(***************************************************************************)
EXTENDS Integers, Sequences, FiniteSets, TLC

VARIABLES
    env,                 \* what the plugin registries return, and the locale
    m_initialized,       \* ServicesSettingsPage::m_initialized
    m_serviceModel,      \* rows of the ServiceModel, in source-row order
    filter,              \* filter string of m_sortModel (the search line text)
    m_enabledVcsPlugins, \* baseline snapshot taken by the constructor
    showGroup,           \* kservicemenurc, group "Show": key -> bool, partial
    kdeGroup,            \* kdeglobals, group "KDE": ShowDeleteCommand, partial
    showCopyMoveMenu,    \* GeneralSettings::showCopyMoveMenu
    enabledPlugins,      \* VersionControlSettings::enabledPlugins
    notices,             \* number of KMessageBox::information calls so far
    vcsTouched,          \* history: the user changed a version-control row
    last                 \* history: the handler that ran last, and its input

vars == <<env, m_initialized, m_serviceModel, filter, m_enabledVcsPlugins,
          showGroup, kdeGroup, showCopyMoveMenu, enabledPlugins, notices,
          vcsTouched, last>>

----------------------------------------------------------------------------
(* Bounds *)

MaxNotices == 2

----------------------------------------------------------------------------
(* String constants of the source, as code units *)

\* "_version_control_"
VersionControlServicePrefix ==
    <<95,118,101,114,115,105,111,110,95,99,111,110,116,114,111,108,95>>

\* "_delete"
DeleteService == <<95,100,101,108,101,116,101>>

\* "_copy_to_move_to"
CopyToMoveToService == <<95,99,111,112,121,95,116,111,95,109,111,118,101,95,116,111>>

ShowDeleteDefault == FALSE

\* "Delete"
DeleteLabel == <<68,101,108,101,116,101>>

\* "'Copy To' and 'Move To' commands"
CopyMoveLabel ==
    <<39,67,111,112,121,32,84,111,39,32,97,110,100,32,39,77,111,118,101,32,
      84,111,39,32,99,111,109,109,97,110,100,115>>

\* ": ", the separator of i18nc("@item:inmenu", "%1: %2", ...)
SubMenuSeparator == <<58,32>>

----------------------------------------------------------------------------
(* QString operations *)

\* QString::startsWith
startsWith(s, p) ==
    /\ Len(s) >= Len(p)
    /\ SubSeq(s, 1, Len(p)) = p

\* QChar::toLower / case folding, for the Basic Latin letters
toLower(c) == IF c >= 65 /\ c <= 90 THEN c + 32 ELSE c

toLowerStr(s) == [i \in 1..Len(s) |-> toLower(s[i])]

\* operator<(QString, QString): lexicographic on code units
RECURSIVE codeUnitLess(_, _)
codeUnitLess(a, b) ==
    IF b = <<>> THEN FALSE
    ELSE IF a = <<>> THEN TRUE
    ELSE IF Head(a) # Head(b) THEN Head(a) < Head(b)
    ELSE codeUnitLess(Tail(a), Tail(b))

\* QString::localeAwareCompare(a, b) < 0.  In the "C" locale the collation is
\* the code-unit order; in a natural-language locale letters compare without
\* regard to case first, and lower case sorts before upper case on a tie.
localeAwareLess(locale, a, b) ==
    IF locale = "C" THEN codeUnitLess(a, b)
    ELSE IF toLowerStr(a) # toLowerStr(b)
         THEN codeUnitLess(toLowerStr(a), toLowerStr(b))
         ELSE codeUnitLess(b, a)

\* QString::contains(filter, Qt::CaseInsensitive)
containsCaseInsensitive(s, f) ==
    \E i \in 0..(Len(s) - Len(f)) :
        toLowerStr(SubSeq(s, i + 1, i + Len(f))) = toLowerStr(f)

\* QStringList::contains
listContains(list, s) == \E i \in 1..Len(list) : list[i] = s

\* std::sort(list.begin(), list.end()) on a QStringList
RECURSIVE insertSorted(_, _)
insertSorted(sorted, s) ==
    IF sorted = <<>> THEN <<s>>
    ELSE IF codeUnitLess(s, Head(sorted)) THEN <<s>> \o sorted
    ELSE <<Head(sorted)>> \o insertSorted(Tail(sorted), s)

RECURSIVE stdSort(_)
stdSort(list) ==
    IF list = <<>> THEN <<>>
    ELSE insertSorted(stdSort(SubSeq(list, 1, Len(list) - 1)), list[Len(list)])

----------------------------------------------------------------------------
(* ServiceModel and the QSortFilterProxyModel on top of it *)

Row(icon, text, value, checked) ==
    [icon |-> icon, text |-> text, value |-> value, checked |-> checked]

\* ServicesSettingsPage::addRow: insertRow(0), then setData for the four roles
addRow(model, icon, text, value, checked) ==
    <<Row(icon, text, value, checked)>> \o model

\* isInServicesList comparing the display text instead of the desktop entry name
isInServicesList_byText(model, service) ==
    \E i \in 1..Len(model) : model[i].text = service

\* ServicesSettingsPage::isInServicesList: scan of the source model
isInServicesList(model, service) ==
    \E i \in 1..Len(model) : model[i].value = service

\* one step of the stable sort on Qt::DisplayRole: source row r goes behind
\* every row whose label is not greater than its own
RECURSIVE insertByLabel(_, _, _, _)
insertByLabel(locale, model, sorted, r) ==
    IF sorted = <<>> THEN <<r>>
    ELSE IF localeAwareLess(locale, model[r].text, model[Head(sorted)].text)
         THEN <<r>> \o sorted
         ELSE <<Head(sorted)>> \o insertByLabel(locale, model, Tail(sorted), r)

\* QSortFilterProxyModel::sort(0): the source rows 1..n, ordered by label
RECURSIVE sortedRows(_, _, _)
sortedRows(locale, model, n) ==
    IF n = 0 THEN <<>>
    ELSE insertByLabel(locale, model, sortedRows(locale, model, n - 1), n)

\* filterAcceptsRow with setFilterFixedString(f), Qt::CaseInsensitive, on
\* Qt::DisplayRole
filterAcceptsRow(model, f, r) == containsCaseInsensitive(model[r].text, f)

RECURSIVE selectRows(_, _, _)
selectRows(model, f, rows) ==
    IF rows = <<>> THEN <<>>
    ELSE IF filterAcceptsRow(model, f, Head(rows))
         THEN <<Head(rows)>> \o selectRows(model, f, Tail(rows))
         ELSE selectRows(model, f, Tail(rows))

\* m_listView->model(): the rows of m_sortModel, as source rows, in view order
proxyRows(locale, model, f) ==
    selectRows(model, f, sortedRows(locale, model, Len(model)))

----------------------------------------------------------------------------
(* Configuration stores *)

\* KConfigGroup::readEntry(key, default)
readEntry(group, key, default) ==
    IF key \in DOMAIN group THEN group[key] ELSE default

\* KConfigGroup::writeEntry(key, value)
writeEntry(group, key, value) ==
    [k \in (DOMAIN group) \cup {key} |-> IF k = key THEN value ELSE group[k]]

----------------------------------------------------------------------------
(* Loading the rows *)

\* inner loop of loadServices over the actions of one KonqPopupMenu plugin
RECURSIVE loadServiceActions(_, _, _, _)
loadServiceActions(model, group, subMenuName, serviceActions) ==
    IF serviceActions = <<>> THEN model
    ELSE LET action == Head(serviceActions)
             serviceName == action.name
             addService == /\ ~action.noDisplay
                           /\ ~action.isSeparator
                           /\ ~isInServicesList(model, serviceName)
             itemName == IF subMenuName = <<>>
                         THEN action.text
                         ELSE subMenuName \o SubMenuSeparator \o action.text
             checked == readEntry(group, serviceName, TRUE)
         IN  loadServiceActions(
                 IF addService
                 THEN addRow(model, action.icon, itemName, serviceName, checked)
                 ELSE model,
                 group, subMenuName, Tail(serviceActions))

\* outer loop of loadServices over the KonqPopupMenu/Plugin entries
RECURSIVE loadMenuEntries(_, _, _)
loadMenuEntries(model, group, entries) ==
    IF entries = <<>> THEN model
    ELSE loadMenuEntries(
             loadServiceActions(model, group, Head(entries).subMenuName,
                                Head(entries).actions),
             group, Tail(entries))

\* the KFileItemAction/Plugin loops of loadServices (services, then JSON
\* plugins); a plugin is [key, name, icon]
RECURSIVE loadPlugins(_, _, _)
loadPlugins(model, group, plugins) ==
    IF plugins = <<>> THEN model
    ELSE LET desktopEntryName == Head(plugins).key
             checked == readEntry(group, desktopEntryName, TRUE)
         IN  loadPlugins(
                 IF ~isInServicesList(model, desktopEntryName)
                 THEN addRow(model, Head(plugins).icon, Head(plugins).name,
                             desktopEntryName, checked)
                 ELSE model,
                 group, Tail(plugins))

\* ServicesSettingsPage::loadServices
loadServices(model, e, group) ==
    loadPlugins(
        loadPlugins(loadMenuEntries(model, group, e.entries),
                    group, e.pluginServices),
        group, e.jsonPlugins)

\* first loop of loadVersionControlSystems: every plugin of dolphin/vcs
RECURSIVE loadVcsPlugins(_, _, _)
loadVcsPlugins(model, enabled, plugins) ==
    IF plugins = <<>> THEN model
    ELSE LET pluginName == Head(plugins)
         IN  loadVcsPlugins(
                 addRow(model, "code-class", pluginName,
                        VersionControlServicePrefix \o pluginName,
                        listContains(enabled, pluginName)),
                 enabled, Tail(plugins))

\* second loop: the FileViewVersionControlPlugin services not in loadedPlugins
RECURSIVE loadVcsServices(_, _, _, _)
loadVcsServices(model, enabled, loadedPlugins, pluginServices) ==
    IF pluginServices = <<>> THEN model
    ELSE LET pluginName == Head(pluginServices)
         IN  loadVcsServices(
                 IF listContains(loadedPlugins, pluginName)
                 THEN model
                 ELSE addRow(model, "code-class", pluginName,
                             VersionControlServicePrefix \o pluginName,
                             listContains(enabled, pluginName)),
                 enabled, loadedPlugins, Tail(pluginServices))

\* ServicesSettingsPage::loadVersionControlSystems
loadVersionControlSystems(model, e, enabled) ==
    loadVcsServices(loadVcsPlugins(model, enabled, e.vcsPlugins),
                    enabled, e.vcsPlugins, e.vcsServices)

\* the two addRow calls of showEvent
addSyntheticRows(model, kde, copyMove) ==
    addRow(
        addRow(model, "edit-delete", DeleteLabel, DeleteService,
               readEntry(kde, "ShowDeleteCommand", ShowDeleteDefault)),
        "edit-copy", CopyMoveLabel, CopyToMoveToService, copyMove)

----------------------------------------------------------------------------
(* What the page is run against *)

Git == <<71,105,116>>          \* "Git"
Bzr == <<98,122,114>>          \* "bzr"
Zip == <<122,105,112>>         \* "zip"
ZipLabel == <<90,105,112>>     \* "Zip"
PackLabel == <<80,97,99,107>>  \* "Pack"
Ark == <<65,114,107>>          \* "Ark"

Action(name, text, icon, noDisplay, isSeparator) ==
    [name |-> name, text |-> text, icon |-> icon,
     noDisplay |-> noDisplay, isSeparator |-> isSeparator]

Plugin(key, name, icon) == [key |-> key, name |-> name, icon |-> icon]

\* entries:        KServiceTypeTrader::query("KonqPopupMenu/Plugin"), each with
\*                 its X-KDE-Submenu and its user-defined actions
\* pluginServices: KServiceTypeTrader::query("KFileItemAction/Plugin")
\* jsonPlugins:    KPluginLoader::findPlugins("kf5/kfileitemaction")
\* vcsPlugins:     names of KPluginLoader::findPlugins("dolphin/vcs")
\* vcsServices:    names of query("FileViewVersionControlPlugin")
Environment(locale, entries, services, json, vcs, vcsServices) ==
    [locale |-> locale, entries |-> entries,
     pluginServices |-> services, jsonPlugins |-> json,
     vcsPlugins |-> vcs, vcsServices |-> vcsServices]

\* nothing installed
NoPlugins == Environment("C", <<>>, <<>>, <<>>, <<>>, <<>>)

\* one key offered by all three generic sources, twice by the first, next to
\* a hidden action and a separator
SharedKey ==
    Environment("en_US",
        << [subMenuName |-> Ark,
            actions |-> << Action(Zip, PackLabel, "hidden", TRUE, FALSE),
                           Action(Zip, PackLabel, "separator", FALSE, TRUE),
                           Action(Zip, ZipLabel, "zip", FALSE, FALSE),
                           Action(Zip, PackLabel, "pack", FALSE, FALSE) >>] >>,
        << Plugin(Zip, PackLabel, "service") >>,
        << Plugin(Zip, PackLabel, "json") >>,
        <<>>, <<>>)

\* the first source offers the key only in a hidden action
HiddenKey ==
    Environment("C",
        << [subMenuName |-> <<>>,
            actions |-> << Action(Zip, PackLabel, "hidden", TRUE, FALSE) >>] >>,
        <<>>,
        << Plugin(Zip, ZipLabel, "json"), Plugin(Zip, PackLabel, "json2") >>,
        <<>>, <<>>)

\* a service menu whose action is named like the delete sentinel
SentinelKey ==
    Environment("C",
        << [subMenuName |-> <<>>,
            actions |-> << Action(DeleteService, PackLabel, "pack",
                                  FALSE, FALSE) >>] >>,
        <<>>, <<>>, <<>>, <<>>)

\* a service named like the row of the version-control plugin "Git"
PrefixedKey ==
    Environment("C", <<>>,
        << Plugin(VersionControlServicePrefix \o Git, PackLabel, "service") >>,
        <<>>, <<Git>>, <<>>)

\* two version-control plugins, one of them known to both registries
TwoVcs(locale) ==
    Environment(locale, <<>>, <<>>, <<>>, <<Git, Bzr>>, <<Git>>)

\* two version-control plugins of the same name in one registry
SameNameVcs == Environment("C", <<>>, <<>>, <<>>, <<Git, Git>>, <<>>)

Environments ==
    { NoPlugins, SharedKey, HiddenKey, SentinelKey, PrefixedKey,
      TwoVcs("C"), TwoVcs("en_US"), SameNameVcs }

\* VersionControlSettings::enabledPlugins before the page is opened
EnabledPluginsOptions == { <<>>, <<Bzr, Git>> }

\* texts typed into the search line: "" and "g"
FilterTexts == { <<>>, <<103>> }

----------------------------------------------------------------------------
(* The page *)

Handler(op, arg) == [op |-> op, arg |-> arg]

\* ServicesSettingsPage::ServicesSettingsPage, run on a configuration in which
\* only the version-control plugins have been chosen so far
Init ==
    /\ env \in Environments
    /\ showGroup = <<>>
    /\ kdeGroup = <<>>
    /\ showCopyMoveMenu \in BOOLEAN
    /\ enabledPlugins \in EnabledPluginsOptions
    /\ m_initialized = FALSE
    /\ m_serviceModel = <<>>
    /\ filter = <<>>
    /\ m_enabledVcsPlugins = stdSort(enabledPlugins)
    /\ notices = 0
    /\ vcsTouched = FALSE
    /\ last = Handler("ServicesSettingsPage", FALSE)

\* the rows showEvent builds on top of model when it initializes the page
initialRows(model, e, show, kde, copyMove, enabled) ==
    addSyntheticRows(
        loadVersionControlSystems(loadServices(model, e, show), e, enabled),
        kde, copyMove)

\* showEvent without the m_initialized test: every non-spontaneous show loads
showEvent_everyShow(spontaneous) ==
    /\ IF ~spontaneous
       THEN /\ m_serviceModel' =
                   initialRows(m_serviceModel, env, showGroup, kdeGroup,
                               showCopyMoveMenu, enabledPlugins)
            /\ m_initialized' = TRUE
       ELSE UNCHANGED <<m_serviceModel, m_initialized>>
    /\ last' = Handler("showEvent", spontaneous)
    /\ UNCHANGED <<env, filter, m_enabledVcsPlugins, showGroup, kdeGroup,
                   showCopyMoveMenu, enabledPlugins, notices, vcsTouched>>

\* ServicesSettingsPage::showEvent
showEvent(spontaneous) ==
    /\ IF ~spontaneous /\ ~m_initialized
       THEN /\ m_serviceModel' =
                   initialRows(m_serviceModel, env, showGroup, kdeGroup,
                               showCopyMoveMenu, enabledPlugins)
            /\ m_initialized' = TRUE
       ELSE UNCHANGED <<m_serviceModel, m_initialized>>
    /\ last' = Handler("showEvent", spontaneous)
    /\ UNCHANGED <<env, filter, m_enabledVcsPlugins, showGroup, kdeGroup,
                   showCopyMoveMenu, enabledPlugins, notices, vcsTouched>>

\* the loop of applySettings over the rows of m_listView->model(); acc is
\* the state of the stores and the local enabledPlugins
RECURSIVE applyRows(_, _, _)
applyRows(model, rows, acc) ==
    IF rows = <<>> THEN acc
    ELSE LET service == model[Head(rows)].value
             checked == model[Head(rows)].checked
             next ==
                 IF startsWith(service, VersionControlServicePrefix)
                 THEN IF checked
                      THEN [acc EXCEPT !.plugins =
                                           Append(@, model[Head(rows)].text)]
                      ELSE acc
                 ELSE IF service = DeleteService
                 THEN [acc EXCEPT !.kde =
                                      writeEntry(@, "ShowDeleteCommand", checked)]
                 ELSE IF service = CopyToMoveToService
                 THEN [acc EXCEPT !.copyMove = checked]
                 ELSE [acc EXCEPT !.show = writeEntry(@, service, checked)]
         IN  applyRows(model, Tail(rows), next)

\* m_listView->model() as applySettings and restoreDefaults see it
viewRows == proxyRows(env.locale, m_serviceModel, filter)

\* applySettings without the early return for a page that was never shown
applySettings_noGuard ==
    /\ notices < MaxNotices
    /\ LET acc == applyRows(m_serviceModel, viewRows,
                            [plugins |-> <<>>, kde |-> kdeGroup,
                             copyMove |-> showCopyMoveMenu,
                             show |-> showGroup])
       IN  /\ showGroup' = acc.show
           /\ kdeGroup' = acc.kde
           /\ showCopyMoveMenu' = acc.copyMove
           /\ IF m_enabledVcsPlugins # acc.plugins
              THEN /\ enabledPlugins' = acc.plugins
                   /\ notices' = notices + 1
              ELSE UNCHANGED <<enabledPlugins, notices>>
    /\ last' = Handler("applySettings", FALSE)
    /\ UNCHANGED <<env, m_initialized, m_serviceModel, filter,
                   m_enabledVcsPlugins, vcsTouched>>

\* ServicesSettingsPage::applySettings
applySettings ==
    /\ notices < MaxNotices
    /\ IF ~m_initialized
       THEN UNCHANGED <<showGroup, kdeGroup, showCopyMoveMenu, enabledPlugins,
                        notices>>
       ELSE LET acc == applyRows(m_serviceModel, viewRows,
                                 [plugins |-> <<>>, kde |-> kdeGroup,
                                  copyMove |-> showCopyMoveMenu,
                                  show |-> showGroup])
            IN  /\ showGroup' = acc.show
                /\ kdeGroup' = acc.kde
                /\ showCopyMoveMenu' = acc.copyMove
                /\ IF m_enabledVcsPlugins # acc.plugins
                   THEN /\ enabledPlugins' = acc.plugins
                        /\ notices' = notices + 1
                   ELSE UNCHANGED <<enabledPlugins, notices>>
    /\ last' = Handler("applySettings", FALSE)
    /\ UNCHANGED <<env, m_initialized, m_serviceModel, filter,
                   m_enabledVcsPlugins, vcsTouched>>

\* the value restoreDefaults gives to a row
defaultChecked(service) ==
    /\ ~startsWith(service, VersionControlServicePrefix)
    /\ service # DeleteService
    /\ service # CopyToMoveToService

\* ServicesSettingsPage::restoreDefaults
restoreDefaults ==
    /\ m_serviceModel' =
           [r \in 1..Len(m_serviceModel) |->
               IF listContains(viewRows, r)
               THEN [m_serviceModel[r] EXCEPT
                         !.checked = defaultChecked(m_serviceModel[r].value)]
               ELSE m_serviceModel[r]]
    /\ vcsTouched' = TRUE
    /\ last' = Handler("restoreDefaults", FALSE)
    /\ UNCHANGED <<env, m_initialized, filter, m_enabledVcsPlugins, showGroup,
                   kdeGroup, showCopyMoveMenu, enabledPlugins, notices>>

\* the textChanged lambda of the constructor
textChanged(f) ==
    /\ filter' = f
    /\ last' = Handler("textChanged", FALSE)
    /\ UNCHANGED <<env, m_initialized, m_serviceModel, m_enabledVcsPlugins,
                   showGroup, kdeGroup, showCopyMoveMenu, enabledPlugins,
                   notices, vcsTouched>>

\* a click on the check box of the i-th row of the list view
clicked(i) ==
    /\ i \in 1..Len(viewRows)
    /\ m_serviceModel' = [m_serviceModel EXCEPT ![viewRows[i]].checked = ~@]
    /\ vcsTouched' = (vcsTouched \/ startsWith(m_serviceModel[viewRows[i]].value,
                                               VersionControlServicePrefix))
    /\ last' = Handler("clicked", FALSE)
    /\ UNCHANGED <<env, m_initialized, filter, m_enabledVcsPlugins, showGroup,
                   kdeGroup, showCopyMoveMenu, enabledPlugins, notices>>

\* the dialogFinished lambda of the constructor; the download button is part
\* of the page, so the dialog can only finish after the page was shown
dialogFinished(changed) ==
    /\ m_initialized
    /\ m_serviceModel' = IF changed
                         THEN loadServices(<<>>, env, showGroup)
                         ELSE m_serviceModel
    /\ last' = Handler("dialogFinished", changed)
    /\ UNCHANGED <<env, m_initialized, filter, m_enabledVcsPlugins, showGroup,
                   kdeGroup, showCopyMoveMenu, enabledPlugins, notices,
                   vcsTouched>>

Next ==
    \/ \E spontaneous \in BOOLEAN : showEvent(spontaneous)
    \/ applySettings
    \/ restoreDefaults
    \/ \E f \in FilterTexts : textChanged(f)
    \/ \E i \in 1..Len(m_serviceModel) : clicked(i)
    \/ \E changed \in BOOLEAN : dialogFinished(changed)

Spec == Init /\ [][Next]_vars

----------------------------------------------------------------------------
(* Vocabulary of the properties *)

Range(seq) == { seq[i] : i \in 1..Len(seq) }

\* the category of a row, derived from its key
Category(service) ==
    IF startsWith(service, VersionControlServicePrefix) THEN "VersionControl"
    ELSE IF service = DeleteService THEN "DeleteCommand"
    ELSE IF service = CopyToMoveToService THEN "CopyMoveCommand"
    ELSE "Generic"

RowsOfCategory(model, c) ==
    { i \in 1..Len(model) : Category(model[i].value) = c }

RowsWithKey(model, key) == { i \in 1..Len(model) : model[i].value = key }

\* the labels of the checked version-control rows
CheckedVcsLabels(model) ==
    { model[i].text : i \in { j \in RowsOfCategory(model, "VersionControl") :
                                model[j].checked } }

\* the last handler was an apply() on an initialized page
Applied == last.op = "applySettings" /\ m_initialized

\* the last handler was a reload: a download that changed something
Reloaded == last = Handler("dialogFinished", TRUE)

\* what the generic sources offer, hidden actions and separators left out, in
\* processing order, with the label a row is to get
RECURSIVE ActionOffers(_, _)
ActionOffers(subMenuName, actions) ==
    IF actions = <<>> THEN <<>>
    ELSE LET a == Head(actions)
             label == IF subMenuName = <<>> THEN a.text
                      ELSE subMenuName \o SubMenuSeparator \o a.text
         IN  (IF a.noDisplay \/ a.isSeparator THEN <<>>
              ELSE << Plugin(a.name, label, a.icon) >>)
             \o ActionOffers(subMenuName, Tail(actions))

RECURSIVE EntryOffers(_)
EntryOffers(entries) ==
    IF entries = <<>> THEN <<>>
    ELSE ActionOffers(Head(entries).subMenuName, Head(entries).actions)
         \o EntryOffers(Tail(entries))

GenericOffers(e) == EntryOffers(e.entries) \o e.pluginServices \o e.jsonPlugins

FirstOffer(offers, key) ==
    offers[CHOOSE i \in 1..Len(offers) :
               /\ offers[i].key = key
               /\ \A j \in 1..(i - 1) : offers[j].key # key]

----------------------------------------------------------------------------
(* The claims *)

\* C1: an apply() on an initialized page processes every row, whatever the
\* search filter is: the show group holds key -> checked for every Generic
\* row, the delete setting is the checked value of the DeleteCommand row and
\* the copy/move setting that of the CopyMoveCommand row.
C1_ApplyProcessesEveryRow ==
    Applied =>
        /\ \A i \in RowsOfCategory(m_serviceModel, "Generic") :
               /\ m_serviceModel[i].value \in DOMAIN showGroup
               /\ showGroup[m_serviceModel[i].value] = m_serviceModel[i].checked
        /\ \A i \in RowsOfCategory(m_serviceModel, "DeleteCommand") :
               Cardinality(RowsOfCategory(m_serviceModel, "DeleteCommand")) = 1
               => /\ "ShowDeleteCommand" \in DOMAIN kdeGroup
                  /\ kdeGroup["ShowDeleteCommand"] = m_serviceModel[i].checked
        /\ \A i \in RowsOfCategory(m_serviceModel, "CopyMoveCommand") :
               Cardinality(RowsOfCategory(m_serviceModel, "CopyMoveCommand")) = 1
               => showCopyMoveMenu = m_serviceModel[i].checked

\* C2: an apply() on an initialized page persists a new plugin list and shows
\* the restart notice exactly when the set of labels of the checked
\* version-control rows differs from the set of the baseline; then one notice
\* fires and the persisted list holds those labels, otherwise nothing is
\* written and no notice fires.
C2_NoticeIffSetsDiffer ==
    [][ (last'.op = "applySettings" /\ m_initialized) =>
            IF CheckedVcsLabels(m_serviceModel) = Range(m_enabledVcsPlugins)
            THEN /\ notices' = notices
                 /\ enabledPlugins' = enabledPlugins
            ELSE /\ notices' = notices + 1
                 /\ Range(enabledPlugins') = CheckedVcsLabels(m_serviceModel)
      ]_vars

\* C3: once the page is initialized no two rows have the same key.
C3_KeysUnique ==
    m_initialized =>
        \A i, j \in 1..Len(m_serviceModel) :
            i # j => m_serviceModel[i].value # m_serviceModel[j].value

\* C4: restoreDefaults() leaves every row, shown or filtered out, checked if
\* it is Generic and unchecked otherwise, and changes no key, no label and not
\* the number of rows.
C4_RestoreDefaultsEveryRow ==
    [][ last'.op = "restoreDefaults" =>
            /\ Len(m_serviceModel') = Len(m_serviceModel)
            /\ \A i \in 1..Len(m_serviceModel) :
                   /\ m_serviceModel'[i].value = m_serviceModel[i].value
                   /\ m_serviceModel'[i].text = m_serviceModel[i].text
                   /\ m_serviceModel'[i].checked =
                          (Category(m_serviceModel[i].value) = "Generic")
      ]_vars

\* C5: after a reload the page is still initialized and the rows again hold
\* the delete row, the copy/move row and a row for every available
\* version-control plugin.
C5_ReloadKeepsSpecialRows ==
    Reloaded =>
        /\ m_initialized
        /\ RowsWithKey(m_serviceModel, DeleteService) # {}
        /\ RowsWithKey(m_serviceModel, CopyToMoveToService) # {}
        /\ \A name \in Range(env.vcsPlugins) \cup Range(env.vcsServices) :
               RowsWithKey(m_serviceModel,
                           VersionControlServicePrefix \o name) # {}

\* C6: only the first non-spontaneous show event loads rows: a show event on
\* an initialized page, and a spontaneous one on any page, leaves the rows as
\* they are, and an initialized page stays initialized.
C6_InitializeOnce ==
    [][ /\ (last'.op = "showEvent" /\ (m_initialized \/ last'.arg))
            => m_serviceModel' = m_serviceModel
        /\ m_initialized => m_initialized'
        /\ m_initialized' /\ ~m_initialized
            => last' = Handler("showEvent", FALSE)
      ]_vars

\* C6 witness: a show event reached an initialized page whose rows the user
\* had toggled away from what a load gives
C6_Witness ==
    /\ m_initialized
    /\ last.op = "showEvent"
    /\ Len(m_serviceModel) > 2
    /\ m_serviceModel # initialRows(<<>>, env, showGroup, kdeGroup,
                                    showCopyMoveMenu, enabledPlugins)

\* C7: apply() on a page that was never shown writes no store and fires no
\* notice.
C7_ApplyUninitializedNoOp ==
    [][ (last'.op = "applySettings" /\ ~m_initialized) =>
            UNCHANGED <<showGroup, kdeGroup, showCopyMoveMenu, enabledPlugins,
                        notices>>
      ]_vars

\* C7 witness: apply() ran on a page never shown, with a baseline and no rows
C7_Witness ==
    /\ last.op = "applySettings"
    /\ ~m_initialized
    /\ m_enabledVcsPlugins # <<>>
    /\ m_serviceModel = <<>>

\* C8: the generic sources are merged first-seen-wins: for every key offered
\* there is exactly one row, with the label and icon of the first offer that
\* is neither hidden nor a separator and the stored checked value, and there
\* is no other row.
C8_FirstSeenWins ==
    Reloaded =>
        LET offers == GenericOffers(env)
            keys == { offers[i].key : i \in 1..Len(offers) }
        IN  /\ \A k \in keys :
                   /\ Cardinality(RowsWithKey(m_serviceModel, k)) = 1
                   /\ \A i \in RowsWithKey(m_serviceModel, k) :
                          m_serviceModel[i] =
                              Row(FirstOffer(offers, k).icon,
                                  FirstOffer(offers, k).name, k,
                                  readEntry(showGroup, k, TRUE))
            /\ \A i \in 1..Len(m_serviceModel) : m_serviceModel[i].value \in keys

\* C8 witness: a reload merged a key offered by several sources whose stored
\* value is not the default
C8_Witness ==
    /\ Reloaded
    /\ \E k \in DOMAIN showGroup :
           /\ ~showGroup[k]
           /\ Cardinality({ i \in 1..Len(GenericOffers(env)) :
                              GenericOffers(env)[i].key = k }) > 1
           /\ RowsWithKey(m_serviceModel, k) # {}

\* C9: what apply() persists is what a new page shows: a page constructed and
\* initialized over the stores apply() leaves has, for every key, the checked
\* value the row had when apply() was called.
C9_RoundTrip ==
    [][ (last'.op = "applySettings" /\ m_initialized) =>
            LET fresh == initialRows(<<>>, env, showGroup', kdeGroup',
                                     showCopyMoveMenu', enabledPlugins')
            IN  \A i \in 1..Len(m_serviceModel), j \in 1..Len(fresh) :
                    ( /\ fresh[j].value = m_serviceModel[i].value
                      /\ Cardinality(RowsWithKey(m_serviceModel,
                                                 m_serviceModel[i].value)) = 1
                      /\ Cardinality(RowsWithKey(fresh, fresh[j].value)) = 1 )
                    => fresh[j].checked = m_serviceModel[i].checked
      ]_vars

\* C10: as long as the user changes no version-control row, the persisted
\* plugin list is the one read at construction and no notice has fired.
C10_UntouchedVcsNeverPersisted ==
    ~vcsTouched =>
        /\ notices = 0
        /\ stdSort(enabledPlugins) = m_enabledVcsPlugins

====
